---- MODULE Spec2Model ----
(***************************************************************************)
(* Messaging clients of the vehicle tracking broker repository:            *)
(*   - VehicleDataConsumer (the retrying consumer with x-retry-count),     *)
(*   - the backend connection / consumer / publisher modules.              *)
(* The broker (RabbitMQ) and the AMQP client library are the environment:  *)
(* connections, channels, per-consumer prefetch, delivery tags, requeue    *)
(* and dead-lettering are modelled as the broker performs them.            *)
(***************************************************************************)
EXTENDS Integers, Sequences, FiniteSets, TLC

\* ------------------------------------------------------------------ bounds
MaxConns == 3        \* connections amqp.connect can open in one run
NumMsgs == 2         \* messages waiting in vehicle.realtime.location
MaxDeliveries == 5   \* deliveries the broker makes in one run
MaxHeader == 4       \* largest x-retry-count a publisher stored
MaxPublishes == 2    \* publishCommand calls in one run
MaxStartCalls == 2   \* startConsuming() calls the application makes itself
MaxCloses == 2       \* close() calls in one run
MaxIdLen == 2        \* characters of a vehicle_id in a control request
MaxRequests == 2     \* POST /api/control requests in one run
MaxCalls == 3        \* connectRabbitMQ calls in one run
MaxRounds == 2       \* choices read by the menu of setup.sh in one run
MaxLine == 4         \* pieces of text in a line typed at a prompt

\* ------------------------------------------------------- program constants
maxReconnectAttempts == 5   \* config.reconnectAttempts || 5
reconnectDelay == 5000      \* config.reconnectDelay || 5000, milliseconds
maxRetries == 3             \* the literal 3 of "retryCount < 3"
prefetch == 2               \* config.prefetch (ConsumerConfig), here 2

NoConn == 0                 \* null connection / null channel
NoHeader == -1              \* message published without x-retry-count
Unset == 0                  \* a config property that was not given
readmePrefetch == 10        \* this.channel.prefetch(10) of the README class

Conns == 1..MaxConns
Msgs == 1..NumMsgs
Tags == 1..MaxDeliveries
HeaderValues == {NoHeader} \cup (0..MaxHeader)

\* the seven queues startConsuming subscribes to
Queues ==
    { "vehicle.realtime.location", "vehicle.realtime.status",
      "vehicle.realtime.battery", "vehicle.report.maintenance",
      "vehicle.report.performance", "vehicle.report.tire_condition",
      "vehicle.alerts" }

LocationQueue == "vehicle.realtime.location"

VARIABLES
    \* which VehicleDataConsumer runs, and what its caller configured
    variant,        \* "retrying": the class of the consumer module;
                    \* "deadLettering": the class of the README
    configMaxRetries, \* a maxRetries property in the config object, or Unset
    \* VehicleDataConsumer fields
    connection, channel, isConnected, reconnectAttempts,
    \* event loop of the consumer process
    started,        \* the caller has called connect()
    timers,         \* setTimeout callbacks of handleReconnect not yet fired
    connecting,     \* connect() calls suspended at amqp.connect
    creating,       \* connections whose createChannel has not answered
    prefetching,    \* channels whose prefetch has not answered
    events,         \* 'error' / 'close' listener calls of the current emit
    callbacks,      \* consume callbacks suspended at "await processor(data)"
    exited,         \* process.exit(1) was called
    escaped,        \* an exception left a consume callback
    \* broker
    opened,         \* number of connections accepted so far
    connOpen,       \* open connections
    chanOpen,       \* open channels; the channel of connection c is named c
    chanPrefetch,   \* basic.qos count per channel, 0 = none
    listeners,      \* ('error','close') listener pairs registered per connection
    consumers,      \* consumers per channel and queue
    nextTag,        \* last delivery tag used per channel
    queue,          \* ready messages per queue
    unacked,        \* deliveries the broker waits a settlement for
    dlq, acked,     \* dead-lettered / acknowledged messages
    stored,         \* x-retry-count header as the broker stores it
    malformed,      \* the payload is not JSON
    \* observation
    settles,        \* ack / nack frames sent per (channel, delivery tag)
    history,        \* per message, one entry per delivery
    mainReturned,   \* the caller's first connect() has returned
    failedSinceReady, \* failed reconnect attempts since the last Ready
    dropSnapshot,   \* reconnectAttempts and timers when the last drop began
    scheduled,      \* attempt number and delay of the last setTimeout
    \* calls of the public methods startConsuming() and close()
    startCalls,     \* startConsuming() calls made by the application
    startLog,       \* what the last of them saw and did
    chanClosing,    \* channels whose close() has not answered
    connClosing,    \* connections whose close() has not answered
    closers,        \* close() calls suspended at one of the two awaits
    closeLog        \* one entry per close() call

apivars == << startCalls, startLog, chanClosing, connClosing, closers,
             closeLog >>

setupvars == << variant, configMaxRetries >>

cvars == << variant, configMaxRetries, connection, channel, isConnected, reconnectAttempts, started,
            timers, connecting, creating, prefetching, events, callbacks,
            exited, escaped, opened, connOpen, chanOpen, chanPrefetch,
            listeners, consumers, nextTag, queue, unacked, dlq, acked,
            stored, malformed, settles, history, mainReturned,
            failedSinceReady, dropSnapshot, scheduled, apivars >>

VARIABLES
    \* backend: rabbitmq/connection.ts module state
    bkConnection, bkChannel,
    \* backend: rabbitmq/consumer.ts
    memoryData,
    \* backend process
    bkPc,           \* where startApp stands
    bkRegistered,   \* queues of startConsumers consumed so far
    bkCloseListener,\* connection.on("close", ...) was registered
    bkEscaped,      \* an exception left a consume callback
    published,      \* channel.publish: number of calls, and the last message
    \* broker, as the backend sees it
    bkConnOpen, bkChanOpen,
    bkQueue,        \* ready messages of vehicle.realtime.location
    bkUnacked,      \* delivered and not settled
    bkAcked,        \* acknowledged
    bkDelivered,    \* deliveries made
    bkMalformed,    \* the payload is not JSON
    bkVehicle,      \* vehicle_id of the payload
    \* observation
    sessionReady,   \* connectRabbitMQ has returned and no 'close' since
    pubLog,         \* one entry per publishCommand call
    httpLog,        \* one entry per POST /api/control/:command request
    bkLog           \* messages stored in memoryData, in the order stored

bvars == << bkConnection, bkChannel, memoryData, bkPc, bkRegistered,
            bkCloseListener, bkEscaped, published, bkConnOpen, bkChanOpen,
            bkQueue, bkUnacked, bkAcked, bkDelivered, bkMalformed,
            bkVehicle, sessionReady, pubLog, httpLog, bkLog >>

VARIABLES
    \* backend: connectRabbitMQ called by any code of the process
    crCalls,        \* per call: where it stands and what it did
    crOpened        \* connections amqp.connect has opened for these calls

crvars == << crCalls, crOpened >>

VARIABLES
    \* the broker script: start_broker / restart_broker and wait_for_rabbitmq
    sbPc,           \* "idle", "waiting" (in the loop), "logs", "done"
    sbCaller,       \* "start" or "restart"
    attempt,        \* $attempt
    containerRunning,
    waitStatus,     \* what wait_for_rabbitmq returned, NoStatus while it has not
    exitCode        \* exit status of the script, NoStatus while it runs

wvars == << sbPc, sbCaller, attempt, containerRunning, waitStatus, exitCode >>

VARIABLES
    \* setup.sh: main, show_menu, clean_all
    menuPc,         \* "idle", "menu", "confirm", "pause", "exited"
    rounds,         \* choices read so far
    choice,         \* the last choice read, 0 when none
    ran,            \* the operation run for it
    confirmation,   \* the line typed in clean_all and $confirmation
    removed         \* the last clean_all ran the docker removal commands

mvars == << menuPc, rounds, choice, ran, confirmation, removed >>

xvars == << crvars, wvars, mvars >>

vars == << cvars, bvars, xvars >>

\* ------------------------------------------------------------ pure helpers

\* msg.properties.headers?.['x-retry-count'] || 0
RetryCount(h) == IF h = NoHeader \/ h = 0 THEN 0 ELSE h

\* the comparison written as "retryCount <= 3"
DecideInclusive(retryCount) ==
    IF retryCount <= maxRetries THEN "requeue" ELSE "dead"

\* if (retryCount < 3) nack(msg,false,true) else nack(msg,false,false)
Decide(retryCount) == IF retryCount < maxRetries THEN "requeue" ELSE "dead"

RECURSIVE ByTag(_)
ByTag(S) ==
    IF S = {} THEN << >>
    ELSE LET u == CHOOSE x \in S : \A y \in S : x.tag <= y.tag
         IN  << u.msg >> \o ByTag(S \ {u})

Deliveries == LET RECURSIVE Sum(_)
                  Sum(S) == IF S = {} THEN 0
                            ELSE LET c == CHOOSE x \in S : TRUE
                                 IN  nextTag[c] + Sum(S \ {c})
              IN  Sum(Conns)

\* ------------------------------------------------------------------ broker

Broker == [ unacked |-> unacked, queue |-> queue, dlq |-> dlq,
            acked |-> acked, chanOpen |-> chanOpen, settles |-> settles ]

SetBroker(b) ==
    /\ unacked' = b.unacked
    /\ queue' = b.queue
    /\ dlq' = b.dlq
    /\ acked' = b.acked
    /\ chanOpen' = b.chanOpen
    /\ settles' = b.settles

\* a channel closes: its unsettled deliveries go back to the head of their queue
CloseChannel(b, ch) ==
    [ b EXCEPT
        !.chanOpen = @ \ {ch},
        !.unacked = { u \in @ : u.ch # ch },
        !.queue = [ q \in Queues |->
                      ByTag({ u \in b.unacked : u.ch = ch /\ u.q = q })
                        \o b.queue[q] ] ]

\* basic.ack / basic.nack for delivery tag `tag` arriving on channel ch.
\* An unknown tag is a channel error (PRECONDITION_FAILED): the channel closes.
ApplyFrame(b, ch, tag, kind) ==
    LET hit == { u \in b.unacked : u.ch = ch /\ u.tag = tag }
        s == [ b EXCEPT !.settles[ch][tag] =
                 IF kind = "ack" THEN [ @ EXCEPT !.ack = @ + 1 ]
                                 ELSE [ @ EXCEPT !.nack = @ + 1 ] ]
    IN  IF hit = {} THEN CloseChannel(s, ch)
        ELSE LET u == CHOOSE x \in hit : TRUE
             IN  [ s EXCEPT
                     !.unacked = @ \ {u},
                     !.queue[u.q] = IF kind = "requeue"
                                    THEN << u.msg >> \o @ ELSE @,
                     !.dlq = IF kind = "dead" THEN @ \cup {u.msg} ELSE @,
                     !.acked = IF kind = "ack" THEN @ \cup {u.msg} ELSE @ ]

\* this.channel?.ack(msg) / this.channel?.nack(msg, false, requeue):
\* nothing when this.channel is null, an IllegalOperationError when the
\* channel object is closed or closing, a frame on this.channel otherwise.
ChannelSend(b, tag, kind) ==
    IF channel = NoConn
    THEN [ b |-> b, threw |-> FALSE, sent |-> FALSE, on |-> NoConn ]
    ELSE IF channel \notin b.chanOpen \/ channel \in chanClosing
         THEN [ b |-> b, threw |-> TRUE, sent |-> FALSE, on |-> NoConn ]
         ELSE [ b |-> ApplyFrame(b, channel, tag, kind),
                threw |-> FALSE, sent |-> TRUE, on |-> channel ]

\* a catch block that requeues
DecideReadmeRequeue(retryCount) == "requeue"

\* the catch block of the README class: this.channel?.nack(msg, false, false)
DecideReadme(retryCount) == "dead"

\* the catch block of the consume callback
Catch(b, hdr, tag) ==
    LET retryCount == RetryCount(hdr)
        decision == IF variant = "deadLettering" THEN DecideReadme(retryCount)
                    ELSE Decide(retryCount)
        r == ChannelSend(b, tag, decision)
    IN  [ b |-> r.b, decision |-> decision, threw |-> r.threw,
          sent |-> r.sent, on |-> r.on,
          hdr |-> IF decision = "requeue" THEN retryCount + 1 ELSE hdr ]

\* -------------------------------------------------------------------- Init

\* the consumer process and the broker right after "new VehicleDataConsumer"
InitConsumer ==
    /\ connection = NoConn
    /\ channel = NoConn
    /\ isConnected = FALSE
    /\ reconnectAttempts = 0
    /\ started = FALSE
    /\ timers = 0
    /\ connecting = 0
    /\ creating = {}
    /\ prefetching = {}
    /\ events = << >>
    /\ callbacks = {}
    /\ exited = FALSE
    /\ escaped = FALSE
    /\ opened = 0
    /\ connOpen = {}
    /\ chanOpen = {}
    /\ chanPrefetch = [ c \in Conns |-> 0 ]
    /\ listeners = [ c \in Conns |-> 0 ]
    /\ consumers = [ c \in Conns |-> [ q \in Queues |-> 0 ] ]
    /\ nextTag = [ c \in Conns |-> 0 ]
    /\ unacked = {}
    /\ dlq = {}
    /\ acked = {}
    /\ settles = [ c \in Conns |-> [ t \in Tags |-> [ ack |-> 0, nack |-> 0 ] ] ]
    /\ history = [ m \in Msgs |-> << >> ]
    /\ mainReturned = FALSE
    /\ failedSinceReady = 0
    /\ dropSnapshot = [ attempts |-> 0, timers |-> 0 ]
    /\ scheduled = [ attempt |-> 0, delay |-> 0 ]
    /\ startCalls = 0
    /\ startLog = [ connected |-> FALSE, chan |-> NoConn, threw |-> FALSE,
                    added |-> 0 ]
    /\ chanClosing = {}
    /\ connClosing = {}
    /\ closers = {}
    /\ closeLog = << >>

\* the class of the consumer module, configured as ConsumerConfig allows
DefaultSetup ==
    /\ variant = "retrying"
    /\ configMaxRetries = Unset

\* NumMsgs messages wait in vehicle.realtime.location
QueueFilled ==
    queue = [ q \in Queues |->
                IF q = LocationQueue THEN [ i \in 1..NumMsgs |-> i ]
                ELSE << >> ]

QueueEmpty == queue = [ q \in Queues |-> << >> ]

\* ------------------------------------------------- connection management

Running == ~exited /\ events = << >>

\* handleReconnect()
HandleReconnect ==
    IF reconnectAttempts >= maxReconnectAttempts
    THEN /\ exited' = TRUE
         /\ UNCHANGED << reconnectAttempts, timers, scheduled >>
    ELSE /\ reconnectAttempts' = reconnectAttempts + 1
         /\ timers' = timers + 1
         /\ scheduled' = [ attempt |-> reconnectAttempts + 1,
                           delay |-> reconnectDelay ]
         /\ UNCHANGED exited

\* startConsuming(): seven consumeQueue calls, each channel.consume on
\* this.channel; on a closed channel every one of them throws.
StartConsuming(connected, ch, open) ==
    consumers' =
        IF connected /\ ch # NoConn /\ ch \in open
        THEN [ consumers EXCEPT ![ch] = [ q \in Queues |-> @[q] + 1 ] ]
        ELSE consumers

\* a connect() call whose try block threw: catch, handleReconnect, and the
\* caller goes on to startConsuming when isConnected
ConnectFailed ==
    /\ HandleReconnect
    /\ IF reconnectAttempts >= maxReconnectAttempts
       THEN UNCHANGED consumers
       ELSE StartConsuming(isConnected, channel, chanOpen \ chanClosing)
    /\ failedSinceReady' =
           IF mainReturned THEN failedSinceReady + 1 ELSE failedSinceReady
    /\ mainReturned' = TRUE

\* the caller: await consumer.connect()
Connect ==
    /\ Running
    /\ ~started
    /\ started' = TRUE
    /\ connecting' = connecting + 1
    /\ UNCHANGED << setupvars, bvars, xvars, dropSnapshot, apivars, scheduled >>
    /\ UNCHANGED << connection, channel, isConnected, reconnectAttempts,
                    timers, creating, prefetching, events, callbacks, exited,
                    escaped, opened, connOpen, chanOpen, chanPrefetch,
                    listeners, consumers, nextTag, queue, unacked, dlq,
                    acked, stored, malformed, settles, history,
                    mainReturned, failedSinceReady >>

\* the setTimeout callback of handleReconnect: await this.connect()
TimerFire ==
    /\ Running
    /\ timers > 0
    /\ timers' = timers - 1
    /\ connecting' = connecting + 1
    /\ UNCHANGED << setupvars, bvars, xvars, dropSnapshot, apivars, scheduled >>
    /\ UNCHANGED << connection, channel, isConnected, reconnectAttempts,
                    started, creating, prefetching, events, callbacks,
                    exited, escaped, opened, connOpen, chanOpen,
                    chanPrefetch, listeners, consumers, nextTag, queue,
                    unacked, dlq, acked, stored, malformed, settles,
                    history, mainReturned, failedSinceReady >>

\* this.connection = await amqp.connect(url); createChannel() is called on it
ConnectResolve ==
    /\ Running
    /\ connecting > 0
    /\ opened < MaxConns
    /\ LET c == opened + 1
       IN  /\ opened' = c
           /\ connOpen' = connOpen \cup {c}
           /\ connection' = c
           /\ creating' = creating \cup {c}
    /\ connecting' = connecting - 1
    /\ UNCHANGED << setupvars, bvars, xvars, dropSnapshot, apivars, scheduled >>
    /\ UNCHANGED << channel, isConnected, reconnectAttempts, started, timers,
                    prefetching, events, callbacks, exited, escaped,
                    chanOpen, chanPrefetch, listeners, consumers, nextTag,
                    queue, unacked, dlq, acked, stored, malformed, settles,
                    history, mainReturned, failedSinceReady >>

\* amqp.connect rejects
ConnectReject ==
    /\ Running
    /\ connecting > 0
    /\ connecting' = connecting - 1
    /\ ConnectFailed
    /\ UNCHANGED << setupvars, bvars, xvars, dropSnapshot, apivars >>
    /\ UNCHANGED << connection, channel, isConnected, started, creating,
                    prefetching, events, callbacks, escaped, opened,
                    connOpen, chanOpen, chanPrefetch, listeners, nextTag,
                    queue, unacked, dlq, acked, stored, malformed, settles,
                    history >>

\* this.channel = await createChannel(); prefetch(this.prefetch) is sent on it
CreateChannelResolve(c) ==
    /\ Running
    /\ c \in creating
    /\ c \in connOpen
    /\ creating' = creating \ {c}
    /\ chanOpen' = chanOpen \cup {c}
    /\ channel' = c
    /\ chanPrefetch' = [ chanPrefetch EXCEPT ![c] =
                          IF variant = "deadLettering" THEN readmePrefetch
                          ELSE prefetch ]
    /\ prefetching' = prefetching \cup {c}
    /\ UNCHANGED << setupvars, bvars, xvars, dropSnapshot, apivars, scheduled >>
    /\ UNCHANGED << connection, isConnected, reconnectAttempts, started,
                    timers, connecting, events, callbacks, exited, escaped,
                    opened, connOpen, listeners, consumers, nextTag, queue,
                    unacked, dlq, acked, stored, malformed, settles, history,
                    mainReturned, failedSinceReady >>

\* createChannel rejects: the connection was lost meanwhile
CreateChannelReject(c) ==
    /\ Running
    /\ c \in creating
    /\ c \notin connOpen
    /\ creating' = creating \ {c}
    /\ ConnectFailed
    /\ UNCHANGED << setupvars, bvars, xvars, dropSnapshot, apivars >>
    /\ UNCHANGED << connection, channel, isConnected, started, connecting,
                    prefetching, events, callbacks, escaped, opened,
                    connOpen, chanOpen, chanPrefetch, listeners, nextTag,
                    queue, unacked, dlq, acked, stored, malformed, settles,
                    history >>

\* a connect() that sets isConnected and leaves the counter as it is
MarkConnectedKeepsAttempts ==
    /\ isConnected' = TRUE
    /\ UNCHANGED reconnectAttempts

\* this.isConnected = true; this.reconnectAttempts = 0
MarkConnected ==
    /\ isConnected' = TRUE
    /\ reconnectAttempts' = 0

\* prefetch answered: listeners on this.connection, isConnected = true,
\* reconnectAttempts = 0; connect() returns and the caller starts consuming
PrefetchResolve(ch) ==
    /\ Running
    /\ ch \in prefetching
    /\ ch \in chanOpen
    /\ connection # NoConn
    /\ prefetching' = prefetching \ {ch}
    /\ listeners' = [ listeners EXCEPT ![connection] = @ + 1 ]
    /\ MarkConnected
    /\ StartConsuming(TRUE, channel, chanOpen \ chanClosing)
    /\ mainReturned' = TRUE
    /\ failedSinceReady' = 0
    /\ UNCHANGED << setupvars, bvars, xvars, dropSnapshot, apivars, scheduled >>
    /\ UNCHANGED << connection, channel, started, timers, connecting,
                    creating, events, callbacks, exited, escaped, opened,
                    connOpen, chanOpen, chanPrefetch, nextTag, queue,
                    unacked, dlq, acked, stored, malformed, settles,
                    history >>

\* prefetch rejects: the channel was closed meanwhile; or this.connection
\* was set to null meanwhile and this.connection.on throws
PrefetchReject(ch) ==
    /\ Running
    /\ ch \in prefetching
    /\ ch \notin chanOpen \/ connection = NoConn
    /\ prefetching' = prefetching \ {ch}
    /\ ConnectFailed
    /\ UNCHANGED << setupvars, bvars, xvars, dropSnapshot, apivars >>
    /\ UNCHANGED << connection, channel, isConnected, started, connecting,
                    creating, events, callbacks, escaped, opened, connOpen,
                    chanOpen, chanPrefetch, listeners, nextTag, queue,
                    unacked, dlq, acked, stored, malformed, settles,
                    history >>

Repeat(n, e) == [ i \in 1..n |-> e ]

\* An unexpected drop of connection c. A network or protocol error is
\* reported as 'error' followed by 'close'; a graceful server-initiated
\* close is reported as 'close' alone.
Drop(c, withError) ==
    /\ Running
    /\ c \in connOpen
    /\ connOpen' = connOpen \ {c}
    /\ SetBroker(CloseChannel(Broker, c))
    /\ dropSnapshot' = [ attempts |-> reconnectAttempts, timers |-> timers ]
    /\ events' = (IF withError THEN Repeat(listeners[c], "error") ELSE << >>)
                    \o Repeat(listeners[c], "close")
    /\ UNCHANGED << setupvars, bvars, xvars, apivars, scheduled >>
    /\ UNCHANGED << connection, channel, isConnected, reconnectAttempts,
                    started, timers, connecting, creating, prefetching,
                    callbacks, exited, escaped, opened, chanPrefetch,
                    listeners, consumers, nextTag, stored, malformed,
                    history, mainReturned, failedSinceReady >>

\* handleConnectionError(error)
HandleConnectionError ==
    /\ ~exited
    /\ events # << >>
    /\ Head(events) = "error"
    /\ events' = Tail(events)
    /\ isConnected' = FALSE
    /\ HandleReconnect
    /\ UNCHANGED << setupvars, bvars, xvars, dropSnapshot, apivars >>
    /\ UNCHANGED << connection, channel, started, connecting, creating,
                    prefetching, callbacks, escaped, opened, connOpen,
                    chanOpen, chanPrefetch, listeners, consumers, nextTag,
                    queue, unacked, dlq, acked, stored, malformed, settles,
                    history, mainReturned, failedSinceReady >>

\* handleConnectionClose()
HandleConnectionClose ==
    /\ ~exited
    /\ events # << >>
    /\ Head(events) = "close"
    /\ events' = Tail(events)
    /\ isConnected' = FALSE
    /\ HandleReconnect
    /\ UNCHANGED << setupvars, bvars, xvars, dropSnapshot, apivars >>
    /\ UNCHANGED << connection, channel, started, connecting, creating,
                    prefetching, callbacks, escaped, opened, connOpen,
                    chanOpen, chanPrefetch, listeners, consumers, nextTag,
                    queue, unacked, dlq, acked, stored, malformed, settles,
                    history, mainReturned, failedSinceReady >>

\* ------------------------------------------------------- startConsuming()

\* a guard that looks at this.channel alone
NotConnectedChannelOnly == channel = NoConn

\* if (!this.isConnected || !this.channel) throw new Error('Not connected ...')
NotConnected == ~isConnected \/ channel = NoConn

\* The application calls startConsuming(). Past the guard, each of the
\* seven consumeQueue calls sends channel.consume on this.channel, which
\* throws on a channel object that is closed or closing.
CallStartConsuming ==
    /\ Running
    /\ startCalls < MaxStartCalls
    /\ startCalls' = startCalls + 1
    /\ LET usable == channel \in chanOpen \ chanClosing
           threw == NotConnected \/ ~usable
       IN  /\ consumers' =
                  IF threw THEN consumers
                  ELSE [ consumers EXCEPT ![channel] = [ q \in Queues |-> @[q] + 1 ] ]
           /\ startLog' = [ connected |-> isConnected, chan |-> channel,
                            threw |-> threw,
                            added |-> IF threw THEN 0 ELSE Cardinality(Queues) ]
    /\ UNCHANGED << setupvars, bvars, xvars, dropSnapshot, scheduled >>
    /\ UNCHANGED << chanClosing, connClosing, closers, closeLog >>
    /\ UNCHANGED << connection, channel, isConnected, reconnectAttempts,
                    started, timers, connecting, creating, prefetching,
                    events, callbacks, exited, escaped, opened, connOpen,
                    chanOpen, chanPrefetch, listeners, nextTag, queue,
                    unacked, dlq, acked, stored, malformed, settles,
                    history, mainReturned, failedSinceReady >>

\* ---------------------------------------------------------------- close()

\* what a close() call finds: an earlier call still suspended ("closing"),
\* an earlier call finished and nothing opened since ("closed"), or else
CloseFinds ==
    IF closers # {} THEN "closing"
    ELSE IF /\ closeLog # << >>
            /\ closeLog[Len(closeLog)].done
            /\ channel = NoConn
            /\ connection = NoConn
         THEN "closed"
         ELSE "open"

\* if (this.connection) { await this.connection.close(); ... }
\* this.isConnected = false
\* connection.close() rejects on a connection that is closed or closing.
CloseConnection(id, others, log) ==
    IF connection = NoConn
    THEN /\ isConnected' = FALSE
         /\ closers' = others
         /\ closeLog' = [ log EXCEPT ![id].done = TRUE ]
         /\ UNCHANGED << connection, connClosing >>
    ELSE IF connection \in connOpen \ connClosing
         THEN /\ connClosing' = connClosing \cup {connection}
              /\ closers' = others \cup
                    { [ id |-> id, phase |-> "conn", target |-> connection ] }
              /\ closeLog' = log
              /\ UNCHANGED << connection, isConnected >>
         ELSE /\ closers' = others
              /\ closeLog' = [ log EXCEPT ![id].raised = TRUE ]
              /\ UNCHANGED << connection, isConnected, connClosing >>

\* The application calls close(): if (this.channel) await this.channel.close()
\* channel.close() throws on a channel object that is closed or closing.
CloseCall ==
    /\ Running
    /\ Len(closeLog) < MaxCloses
    /\ callbacks' = { [ d EXCEPT !.closed = TRUE ] : d \in callbacks }
    /\ LET id == Len(closeLog) + 1
           entry == [ found |-> CloseFinds, raised |-> FALSE, done |-> FALSE ]
       IN  IF channel # NoConn
           THEN IF channel \in chanOpen \ chanClosing
                THEN /\ chanClosing' = chanClosing \cup {channel}
                     /\ closers' = closers \cup
                           { [ id |-> id, phase |-> "chan", target |-> channel ] }
                     /\ closeLog' = Append(closeLog, entry)
                     /\ UNCHANGED << connection, isConnected, connClosing >>
                ELSE /\ closeLog' = Append(closeLog,
                                          [ entry EXCEPT !.raised = TRUE ])
                     /\ UNCHANGED << chanClosing, closers, connection,
                                     isConnected, connClosing >>
           ELSE /\ CloseConnection(id, closers, Append(closeLog, entry))
                /\ UNCHANGED chanClosing
    /\ UNCHANGED << setupvars, bvars, xvars, dropSnapshot, scheduled, startCalls, startLog >>
    /\ UNCHANGED << channel, reconnectAttempts, started, timers, connecting,
                    creating, prefetching, events, exited, escaped, opened,
                    connOpen, chanOpen, chanPrefetch, listeners, consumers,
                    nextTag, queue, unacked, dlq, acked, stored, malformed,
                    settles, history, mainReturned, failedSinceReady >>

\* channel.close() of close() call `id` answers: this.channel = null, and
\* close() goes on to the connection
ChannelCloseResolve(id) ==
    /\ Running
    /\ \E cl \in closers :
          /\ cl.id = id
          /\ cl.phase = "chan"
          /\ cl.target \in chanOpen
          /\ SetBroker(CloseChannel(Broker, cl.target))
          /\ chanClosing' = chanClosing \ {cl.target}
          /\ channel' = NoConn
          /\ CloseConnection(id, closers \ {cl}, closeLog)
    /\ UNCHANGED << setupvars, bvars, xvars, dropSnapshot, scheduled, startCalls, startLog >>
    /\ UNCHANGED << reconnectAttempts, started, timers, connecting, creating,
                    prefetching, events, callbacks, exited, escaped, opened,
                    connOpen, chanPrefetch, listeners, consumers, nextTag,
                    stored, malformed, history, mainReturned,
                    failedSinceReady >>

\* connection.close() of close() call `id` answers: the library emits
\* 'close' on the connection, also for a close the client asked for;
\* this.connection = null; this.isConnected = false
ConnectionCloseResolve(id) ==
    /\ Running
    /\ \E cl \in closers :
          /\ cl.id = id
          /\ cl.phase = "conn"
          /\ cl.target \in connOpen
          /\ connOpen' = connOpen \ {cl.target}
          /\ SetBroker(CloseChannel(Broker, cl.target))
          /\ connClosing' = connClosing \ {cl.target}
          /\ chanClosing' = chanClosing \ {cl.target}
          /\ events' = Repeat(listeners[cl.target], "close")
          /\ closers' = closers \ {cl}
    /\ connection' = NoConn
    /\ isConnected' = FALSE
    /\ closeLog' = [ closeLog EXCEPT ![id].done = TRUE ]
    /\ UNCHANGED << setupvars, bvars, xvars, dropSnapshot, scheduled, startCalls, startLog >>
    /\ UNCHANGED << channel, reconnectAttempts, started, timers, connecting,
                    creating, prefetching, callbacks, exited, escaped, opened,
                    chanPrefetch, listeners, consumers, nextTag, stored,
                    malformed, history, mainReturned, failedSinceReady >>

\* ------------------------------------------------------------ dispatching

Outstanding(ch, q, k) ==
    Cardinality({ u \in unacked : u.ch = ch /\ u.q = q /\ u.cons = k })

Entry(m, hdr, proc, decision, ch, tag) ==
    [ raw |-> stored[m], count |-> RetryCount(stored[m]), proc |-> proc,
      decision |-> decision, ch |-> ch, tag |-> tag, hdr |-> hdr,
      closed |-> FALSE, sent |-> FALSE, on |-> NoConn ]

\* The broker hands the head of queue q to consumer k of channel ch and the
\* consume callback runs up to its first await: JSON.parse of a malformed
\* payload throws into the catch block, otherwise the processor is awaited.
Deliver(ch, q, k) ==
    /\ Running
    /\ ch \in chanOpen
    /\ ch \notin chanClosing
    /\ k \in 1..consumers[ch][q]
    /\ queue[q] # << >>
    /\ Deliveries < MaxDeliveries
    /\ chanPrefetch[ch] = 0 \/ Outstanding(ch, q, k) < chanPrefetch[ch]
    /\ LET m == Head(queue[q])
           tag == nextTag[ch] + 1
           u == [ ch |-> ch, tag |-> tag, msg |-> m, q |-> q, cons |-> k ]
           b0 == [ Broker EXCEPT !.queue[q] = Tail(@),
                                 !.unacked = @ \cup {u} ]
           idx == Len(history[m]) + 1
       IN  /\ nextTag' = [ nextTag EXCEPT ![ch] = tag ]
           /\ IF malformed[m]
              THEN LET r == Catch(b0, stored[m], tag)
                   IN  /\ SetBroker(r.b)
                       /\ escaped' = (escaped \/ r.threw)
                       /\ history' = [ history EXCEPT ![m] = Append(@,
                              [ Entry(m, r.hdr, "parseError", r.decision, ch, tag)
                                  EXCEPT !.sent = r.sent, !.on = r.on ]) ]
                       /\ UNCHANGED callbacks
              ELSE /\ SetBroker(b0)
                   /\ callbacks' = callbacks \cup
                        { [ ch |-> ch, tag |-> tag, msg |-> m, q |-> q,
                            hdr |-> stored[m], idx |-> idx,
                            closed |-> FALSE ] }
                   /\ history' = [ history EXCEPT ![m] = Append(@,
                          Entry(m, stored[m], "running", "none", ch, tag)) ]
                   /\ UNCHANGED escaped
    /\ UNCHANGED << setupvars, bvars, xvars, dropSnapshot, apivars, scheduled >>
    /\ UNCHANGED << connection, channel, isConnected, reconnectAttempts,
                    started, timers, connecting, creating, prefetching,
                    events, exited, opened, connOpen, chanPrefetch,
                    listeners, consumers, stored, malformed, mainReturned,
                    failedSinceReady >>

\* the callback of the delivery with tag `tag` of channel ch
CallbackOf(ch, tag) == { d \in callbacks : d.ch = ch /\ d.tag = tag }

\* a success path that gives the message back to the queue
OnSuccessRequeue == "requeue"

\* what the callback sends after the processor resolved: ack
OnSuccess == "ack"

\* await processor(data) resolves: this.channel?.ack(msg); an ack that
\* throws is caught by the same catch block as a processor failure
ProcessorResolve(d) ==
    /\ Running
    /\ callbacks' = callbacks \ {d}
    /\ LET a == ChannelSend(Broker, d.tag, OnSuccess)
       IN  IF a.threw
           THEN LET r == Catch(a.b, d.hdr, d.tag)
                IN  /\ SetBroker(r.b)
                    /\ escaped' = (escaped \/ r.threw)
                    /\ history' = [ history EXCEPT ![d.msg][d.idx] =
                           [ @ EXCEPT !.proc = "ok", !.decision = r.decision,
                                      !.hdr = r.hdr, !.closed = d.closed,
                                      !.sent = r.sent, !.on = r.on ] ]
           ELSE /\ SetBroker(a.b)
                /\ UNCHANGED escaped
                /\ history' = [ history EXCEPT ![d.msg][d.idx] =
                       [ @ EXCEPT !.proc = "ok", !.decision = OnSuccess,
                                  !.closed = d.closed, !.sent = a.sent,
                                  !.on = a.on ] ]
    /\ UNCHANGED << setupvars, bvars, xvars, dropSnapshot, apivars, scheduled >>
    /\ UNCHANGED << connection, channel, isConnected, reconnectAttempts,
                    started, timers, connecting, creating, prefetching,
                    events, exited, opened, connOpen, chanPrefetch,
                    listeners, consumers, nextTag, stored, malformed,
                    mainReturned, failedSinceReady >>

\* await processor(data) rejects: the catch block decides
ProcessorReject(d) ==
    /\ Running
    /\ callbacks' = callbacks \ {d}
    /\ LET r == Catch(Broker, d.hdr, d.tag)
       IN  /\ SetBroker(r.b)
           /\ escaped' = (escaped \/ r.threw)
           /\ history' = [ history EXCEPT ![d.msg][d.idx] =
                  [ @ EXCEPT !.proc = "failed", !.decision = r.decision,
                             !.hdr = r.hdr, !.closed = d.closed,
                             !.sent = r.sent, !.on = r.on ] ]
    /\ UNCHANGED << setupvars, bvars, xvars, dropSnapshot, apivars, scheduled >>
    /\ UNCHANGED << connection, channel, isConnected, reconnectAttempts,
                    started, timers, connecting, creating, prefetching,
                    events, exited, opened, connOpen, chanPrefetch,
                    listeners, consumers, nextTag, stored, malformed,
                    mainReturned, failedSinceReady >>

\* the processor of delivery (ch, tag) succeeds
ProcessorSucceeds(ch, tag) == \E d \in CallbackOf(ch, tag) : ProcessorResolve(d)

\* the processor of delivery (ch, tag) fails
ProcessorFails(ch, tag) == \E d \in CallbackOf(ch, tag) : ProcessorReject(d)

\* ----------------------------------------------------------------- backend

\* the five queues of startConsumers, in the order of its for loop
BkQueues ==
    << "vehicle.realtime.location", "vehicle.realtime.status",
       "vehicle.realtime.battery", "vehicle.report.maintenance",
       "vehicle.report.performance" >>

\* queue.split(".").slice(-1)[0]
Types == { "location", "status", "battery", "maintenance", "performance" }

\* strings are sequences of characters
Control == << "c", "o", "n", "t", "r", "o", "l" >>
StartRent == << "s", "t", "a", "r", "t", "_", "r", "e", "n", "t" >>
EndRent == << "e", "n", "d", "_", "r", "e", "n", "t" >>
KillVehicle == << "k", "i", "l", "l", "_", "v", "e", "h", "i", "c", "l", "e" >>
Dot == "."

\* "start_rent" | "end_rent" | "kill_vehicle"
Commands == { StartRent, EndRent, KillVehicle }

\* vehicle ids the backend itself passes to publishCommand
BackendIds == { << "V", "1" >>, << "V", "2" >> }

Vehicles == { "VH-1", "VH-2" }

NoStatus == -1

\* local max_attempts=30
max_attempts == 30

\* neither script runs
ScriptsIdle ==
    /\ sbPc = "idle"
    /\ sbCaller = "start"
    /\ attempt = 1
    /\ containerRunning = FALSE
    /\ waitStatus = NoStatus
    /\ exitCode = NoStatus
    /\ menuPc = "idle"
    /\ rounds = 0
    /\ choice = 0
    /\ ran = "none"
    /\ confirmation = [ typed |-> << >>, value |-> << >> ]
    /\ removed = FALSE

CallIds == 1..MaxCalls

\* no code has called connectRabbitMQ yet
SessionIdle ==
    /\ crCalls = [ i \in CallIds |->
                     [ pc |-> "none", held |-> FALSE, connected |-> FALSE,
                       conn |-> NoConn ] ]
    /\ crOpened = 0

InitBackend ==
    /\ bkConnection = NoConn
    /\ bkChannel = NoConn
    /\ memoryData = [ t \in Types |-> [ v \in Vehicles |-> 0 ] ]
    /\ bkPc = "init"
    /\ bkRegistered = 0
    /\ bkCloseListener = FALSE
    /\ bkEscaped = FALSE
    /\ published = [ n |-> 0, routingKey |-> << >>, content |-> << >> ]
    /\ bkConnOpen = FALSE
    /\ bkChanOpen = FALSE
    /\ bkUnacked = {}
    /\ bkAcked = {}
    /\ bkDelivered = 0
    /\ sessionReady = FALSE
    /\ pubLog = << >>
    /\ httpLog = << >>
    /\ bkLog = << >>
    /\ SessionIdle
    /\ ScriptsIdle

BkAlive == bkPc \notin { "exited", "crashed" }

\* startApp: connectRabbitMQ(RABBIT_URL); nothing is held, so amqp.connect
StartApp ==
    /\ bkPc = "init"
    /\ ~(bkConnection # NoConn /\ bkChannel # NoConn)
    /\ bkPc' = "connect"
    /\ UNCHANGED << cvars, xvars, httpLog, bkLog >>
    /\ UNCHANGED << bkConnection, bkChannel, memoryData, bkRegistered,
                    bkCloseListener, bkEscaped, published, bkConnOpen,
                    bkChanOpen, bkQueue, bkUnacked, bkAcked, bkDelivered,
                    bkMalformed, bkVehicle, sessionReady, pubLog >>

\* connection = await amqp.connect(url); createChannel is called on it
BkConnectResolve ==
    /\ bkPc = "connect"
    /\ bkConnection' = 1
    /\ bkConnOpen' = TRUE
    /\ bkPc' = "createChannel"
    /\ UNCHANGED << cvars, xvars, httpLog, bkLog >>
    /\ UNCHANGED << bkChannel, memoryData, bkRegistered, bkCloseListener,
                    bkEscaped, published, bkChanOpen, bkQueue, bkUnacked,
                    bkAcked, bkDelivered, bkMalformed, bkVehicle,
                    sessionReady, pubLog >>

\* amqp.connect rejects: startApp's catch calls process.exit(1)
BkConnectReject ==
    /\ bkPc = "connect"
    /\ bkPc' = "exited"
    /\ UNCHANGED << cvars, xvars, httpLog, bkLog >>
    /\ UNCHANGED << bkConnection, bkChannel, memoryData, bkRegistered,
                    bkCloseListener, bkEscaped, published, bkConnOpen,
                    bkChanOpen, bkQueue, bkUnacked, bkAcked, bkDelivered,
                    bkMalformed, bkVehicle, sessionReady, pubLog >>

\* channel = await createChannel(); the "close" listener is registered,
\* connectRabbitMQ returns and startConsumers sends its first consume
BkCreateChannelResolve ==
    /\ bkPc = "createChannel"
    /\ bkConnOpen
    /\ bkChannel' = 1
    /\ bkChanOpen' = TRUE
    /\ bkCloseListener' = TRUE
    /\ sessionReady' = TRUE
    /\ bkPc' = "consume"
    /\ UNCHANGED << cvars, xvars, httpLog, bkLog >>
    /\ UNCHANGED << bkConnection, memoryData, bkRegistered, bkEscaped,
                    published, bkConnOpen, bkQueue, bkUnacked, bkAcked,
                    bkDelivered, bkMalformed, bkVehicle, pubLog >>

\* createChannel rejects on a lost connection: process.exit(1)
BkCreateChannelReject ==
    /\ bkPc = "createChannel"
    /\ ~bkConnOpen
    /\ bkPc' = "exited"
    /\ UNCHANGED << cvars, xvars, httpLog, bkLog >>
    /\ UNCHANGED << bkConnection, bkChannel, memoryData, bkRegistered,
                    bkCloseListener, bkEscaped, published, bkConnOpen,
                    bkChanOpen, bkQueue, bkUnacked, bkAcked, bkDelivered,
                    bkMalformed, bkVehicle, sessionReady, pubLog >>

\* a loop left after its first consume
FirstRegistered(n) == n >= 1

\* for (const queue of queues): the loop is over after the last queue
AllRegistered(n) == n = Len(BkQueues)

\* await channel.consume(queue, ...) answers; after the fifth queue
\* createServer().listen runs
BkConsumeResolve ==
    /\ bkPc = "consume"
    /\ bkChanOpen
    /\ bkRegistered' = bkRegistered + 1
    /\ bkPc' = IF AllRegistered(bkRegistered + 1) THEN "listening"
               ELSE "consume"
    /\ UNCHANGED << cvars, xvars, httpLog, bkLog >>
    /\ UNCHANGED << bkConnection, bkChannel, memoryData, bkCloseListener,
                    bkEscaped, published, bkConnOpen, bkChanOpen, bkQueue,
                    bkUnacked, bkAcked, bkDelivered, bkMalformed, bkVehicle,
                    sessionReady, pubLog >>

\* channel.consume on the closed channel throws: process.exit(1)
BkConsumeReject ==
    /\ bkPc = "consume"
    /\ ~bkChanOpen
    /\ bkPc' = "exited"
    /\ UNCHANGED << cvars, xvars, httpLog, bkLog >>
    /\ UNCHANGED << bkConnection, bkChannel, memoryData, bkRegistered,
                    bkCloseListener, bkEscaped, published, bkConnOpen,
                    bkChanOpen, bkQueue, bkUnacked, bkAcked, bkDelivered,
                    bkMalformed, bkVehicle, sessionReady, pubLog >>

\* a close listener that forgets "channel = null"
OnCloseKeepsChannel ==
    /\ bkConnection' = NoConn
    /\ UNCHANGED bkChannel

\* connection.on("close", () => { connection = null; channel = null })
OnClose ==
    /\ bkConnection' = NoConn
    /\ bkChannel' = NoConn

RECURSIVE AscSeq(_)
AscSeq(S) ==
    IF S = {} THEN << >>
    ELSE LET m == CHOOSE x \in S : \A y \in S : x <= y
         IN  << m >> \o AscSeq(S \ {m})

\* The backend's connection drops; unsettled deliveries return to the queue.
\* With an error, 'error' is emitted first and the backend registered no
\* 'error' listener, which ends the process; a graceful close emits 'close'.
BkDrop(withError) ==
    /\ BkAlive
    /\ bkConnOpen
    /\ bkConnOpen' = FALSE
    /\ bkChanOpen' = FALSE
    /\ bkQueue' = AscSeq(bkUnacked) \o bkQueue
    /\ bkUnacked' = {}
    /\ IF withError
       THEN /\ bkPc' = "crashed"
            /\ UNCHANGED << bkConnection, bkChannel, sessionReady >>
       ELSE /\ UNCHANGED bkPc
            /\ IF bkCloseListener
               THEN OnClose /\ sessionReady' = FALSE
               ELSE UNCHANGED << bkConnection, bkChannel, sessionReady >>
    /\ UNCHANGED << cvars, xvars, httpLog, bkLog >>
    /\ UNCHANGED << memoryData, bkRegistered, bkCloseListener, bkEscaped,
                    published, bkAcked, bkDelivered, bkMalformed, bkVehicle,
                    pubLog >>

\* a callback that keeps the entry a vehicle already has
StoreFirst(type, vehicle_id, data) ==
    IF memoryData[type][vehicle_id] # 0 THEN memoryData
    ELSE [ memoryData EXCEPT ![type][vehicle_id] = data ]

\* memoryData[type][data.vehicle_id] = data
Store(type, vehicle_id, data) ==
    [ memoryData EXCEPT ![type][vehicle_id] = data ]

\* The consume callback of startConsumers for vehicle.realtime.location:
\* no prefetch was set on the channel, the callback is synchronous and has
\* no try/catch. JSON.parse of a malformed payload throws out of the
\* callback into the client library, which either goes on or ends the
\* process; otherwise memoryData is updated and the message acked.
BkDeliver(crash) ==
    /\ BkAlive
    /\ bkChanOpen
    /\ bkRegistered >= 1
    /\ bkQueue # << >>
    /\ bkDelivered < MaxDeliveries
    /\ bkDelivered' = bkDelivered + 1
    /\ bkQueue' = Tail(bkQueue)
    /\ LET m == Head(bkQueue)
       IN  IF bkMalformed[m]
           THEN /\ bkEscaped' = TRUE
                /\ bkUnacked' = bkUnacked \cup {m}
                /\ bkPc' = IF crash THEN "crashed" ELSE bkPc
                /\ UNCHANGED << memoryData, bkAcked, bkLog >>
           ELSE /\ ~crash
                /\ memoryData' = Store("location", bkVehicle[m], m)
                /\ bkLog' = Append(bkLog, m)
                /\ bkAcked' = bkAcked \cup {m}
                /\ UNCHANGED << bkEscaped, bkUnacked, bkPc >>
    /\ UNCHANGED << cvars, xvars, httpLog >>
    /\ UNCHANGED << bkConnection, bkChannel, bkRegistered, bkCloseListener,
                    published, bkConnOpen, bkChanOpen, bkMalformed,
                    bkVehicle, sessionReady, pubLog >>

\* ------------------------------------------- connectRabbitMQ, any caller

\* if (connection && channel) return { connection, channel }
Held == bkConnection # NoConn /\ bkChannel # NoConn

\* Some code of the process calls connectRabbitMQ(url): with a pair held it
\* returns at once, otherwise it suspends at amqp.connect.
CallConnectRabbitMQ(i) ==
    /\ BkAlive
    /\ crCalls[i].pc = "none"
    /\ crCalls' = [ crCalls EXCEPT ![i] =
                      IF Held
                      THEN [ pc |-> "returned", held |-> TRUE,
                             connected |-> FALSE, conn |-> bkConnection ]
                      ELSE [ pc |-> "connect", held |-> FALSE,
                             connected |-> TRUE, conn |-> NoConn ] ]
    /\ UNCHANGED << cvars, bvars, wvars, mvars, crOpened >>

\* connection = await amqp.connect(url) of call i; createChannel is called
\* on the connection just assigned
CrConnectResolve(i) ==
    /\ BkAlive
    /\ crCalls[i].pc = "connect"
    /\ crOpened' = crOpened + 1
    /\ bkConnection' = crOpened + 1
    /\ bkConnOpen' = TRUE
    /\ crCalls' = [ crCalls EXCEPT ![i].pc = "createChannel",
                                   ![i].conn = crOpened + 1 ]
    /\ UNCHANGED << cvars, wvars, mvars, httpLog, bkLog >>
    /\ UNCHANGED << bkChannel, memoryData, bkPc, bkRegistered,
                    bkCloseListener, bkEscaped, published, bkChanOpen,
                    bkQueue, bkUnacked, bkAcked, bkDelivered, bkMalformed,
                    bkVehicle, sessionReady, pubLog >>

\* channel = await connection.createChannel() of call i (the channel of
\* connection c is named c); the "close" listener is registered on whatever
\* `connection` holds now, and the call returns
CrCreateChannelResolve(i) ==
    /\ BkAlive
    /\ crCalls[i].pc = "createChannel"
    /\ bkChannel' = crCalls[i].conn
    /\ bkChanOpen' = TRUE
    /\ bkCloseListener' = TRUE
    /\ sessionReady' = TRUE
    /\ crCalls' = [ crCalls EXCEPT ![i].pc = "returned" ]
    /\ UNCHANGED << cvars, wvars, mvars, httpLog, bkLog, crOpened >>
    /\ UNCHANGED << bkConnection, memoryData, bkPc, bkRegistered, bkEscaped,
                    published, bkConnOpen, bkQueue, bkUnacked, bkAcked,
                    bkDelivered, bkMalformed, bkVehicle, pubLog >>

\* getChannel(): if (!channel) throw
GetChannelThrows == bkChannel = NoConn

\* `control.${command}.${vehicle_id}`
\* a key that leaves the command out
RoutingKeyNoCommand(command, vehicle_id) ==
    Control \o << Dot >> \o vehicle_id

RoutingKey(command, vehicle_id) ==
    Control \o << Dot >> \o command \o << Dot >> \o vehicle_id

\* new Date().toISOString(): digits and punctuation, nothing JSON escapes
Timestamps == { << "0", "Z" >> }

Quote == "\""
Backslash == "\\"

VehicleIdKey == << "v", "e", "h", "i", "c", "l", "e", "_", "i", "d" >>
TimestampKey == << "t", "i", "m", "e", "s", "t", "a", "m", "p" >>

\* a string copied between the quotes as it is
RECURSIVE EscapeNothing(_)
EscapeNothing(s) ==
    IF s = << >> THEN << >>
    ELSE << Head(s) >> \o EscapeNothing(Tail(s))

\* JSON.stringify of a string: '"' and '\' get a '\' in front
RECURSIVE Escape(_)
Escape(s) ==
    IF s = << >> THEN << >>
    ELSE (IF Head(s) \in { Quote, Backslash }
          THEN << Backslash, Head(s) >>
          ELSE << Head(s) >>) \o Escape(Tail(s))

JsonString(s) == << Quote >> \o Escape(s) \o << Quote >>

\* Buffer.from(JSON.stringify({ vehicle_id, timestamp }))
Stringify(vehicle_id, timestamp) ==
    << "{" >> \o JsonString(VehicleIdKey) \o << ":" >>
              \o JsonString(vehicle_id) \o << "," >>
              \o JsonString(TimestampKey) \o << ":" >>
              \o JsonString(timestamp) \o << "}" >>

\* JSON.parse throws
SyntaxError == [ ok |-> FALSE, value |-> << >>, next |-> 0 ]

\* the characters of a string literal, from position i to its closing quote
RECURSIVE ScanString(_, _, _)
ScanString(text, i, acc) ==
    IF i > Len(text) THEN SyntaxError
    ELSE IF text[i] = Quote
         THEN [ ok |-> TRUE, value |-> acc, next |-> i + 1 ]
    ELSE IF text[i] = Backslash
         THEN IF i + 1 <= Len(text) /\ text[i + 1] \in { Quote, Backslash }
              THEN ScanString(text, i + 2, Append(acc, text[i + 1]))
              ELSE SyntaxError
    ELSE ScanString(text, i + 1, Append(acc, text[i]))

ParseString(text, i) ==
    IF i <= Len(text) /\ text[i] = Quote
    THEN ScanString(text, i + 1, << >>)
    ELSE SyntaxError

\* "key":"value" pairs up to the closing brace, which ends the text
RECURSIVE ParseMembers(_, _, _)
ParseMembers(text, i, members) ==
    LET k == ParseString(text, i)
    IN  IF ~k.ok \/ k.next > Len(text) \/ text[k.next] # ":"
        THEN [ ok |-> FALSE, members |-> << >> ]
        ELSE LET v == ParseString(text, k.next + 1)
                 ms == Append(members, [ key |-> k.value, value |-> v.value ])
             IN  IF ~v.ok \/ v.next > Len(text)
                 THEN [ ok |-> FALSE, members |-> << >> ]
                 ELSE IF text[v.next] = ","
                      THEN ParseMembers(text, v.next + 1, ms)
                 ELSE IF text[v.next] = "}" /\ v.next = Len(text)
                      THEN [ ok |-> TRUE, members |-> ms ]
                 ELSE [ ok |-> FALSE, members |-> << >> ]

\* JSON.parse(msg.content.toString())
JsonParse(text) ==
    IF text # << >> /\ text[1] = "{"
    THEN ParseMembers(text, 2, << >>)
    ELSE [ ok |-> FALSE, members |-> << >> ]

\* data.vehicle_id, data.timestamp: the last member of that name
Property(data, key) ==
    LET hits == { i \in DOMAIN data.members : data.members[i].key = key }
    IN  IF hits = {} THEN << "undefined" >>
        ELSE data.members[CHOOSE i \in hits : \A j \in hits : j <= i].value

\* channel.publish("vehicle.exchange", routingKey, content)
Publish(routingKey, content) ==
    [ n |-> published.n + 1, routingKey |-> routingKey, content |-> content ]

\* publishCommand(command, vehicle_id)
PublishCommand(command, vehicle_id) ==
    /\ BkAlive
    /\ Len(pubLog) < MaxPublishes
    /\ IF GetChannelThrows
       THEN /\ UNCHANGED published
            /\ pubLog' = Append(pubLog, [ ready |-> sessionReady,
                                          result |-> "error",
                                          before |-> published.n,
                                          after |-> published'.n ])
       ELSE /\ \E timestamp \in Timestamps :
                  published' = Publish(RoutingKey(command, vehicle_id),
                                       Stringify(vehicle_id, timestamp))
            /\ pubLog' = Append(pubLog, [ ready |-> sessionReady,
                                          result |-> "ok",
                                          before |-> published.n,
                                          after |-> published'.n ])
    /\ UNCHANGED << cvars, xvars, httpLog, bkLog >>
    /\ UNCHANGED << bkConnection, bkChannel, memoryData, bkPc, bkRegistered,
                    bkCloseListener, bkEscaped, bkConnOpen, bkChanOpen,
                    bkQueue, bkUnacked, bkAcked, bkDelivered, bkMalformed,
                    bkVehicle, sessionReady >>

\* ------------------------------------------------ POST /api/control/:command

\* characters a vehicle_id of a request is made of
IdAlphabet == { "V", Dot, Quote, Backslash }

\* req.body.vehicle_id: absent, or a string of up to MaxIdLen characters
Missing == << "undefined" >>

IdTexts == UNION { [ 1..n -> IdAlphabet ] : n \in 0..MaxIdLen }

RequestIds == IdTexts \cup { Missing }

\* req.params.command: the three commands and two that are not
RequestCommands ==
    Commands \cup { << "s", "t", "o", "p" >>, EndRent \o << Dot, "V" >> }

\* !vehicle_id
Falsy(v) == v = Missing \/ v = << >>

\* a route that checks vehicle_id alone
RejectsIdOnly(command, vehicle_id) == Falsy(vehicle_id)

\* the two "return res.status(400)" of the route
Rejects(command, vehicle_id) ==
    Falsy(vehicle_id) \/ command \notin Commands

\* the requests the log keeps: the last two
Recent(log) == IF Len(log) <= 2 THEN log ELSE Tail(log)

Served == IF httpLog = << >> THEN 0 ELSE httpLog[Len(httpLog)].n

\* The route handler. A request that passes the two checks awaits
\* publishCommand; when that rejects, the async handler's promise rejects
\* with nobody awaiting it: no response is sent and the runtime either
\* goes on or ends the process.
PostControl(command, vehicle_id, crash) ==
    /\ bkPc = "listening"
    /\ Served < MaxRequests
    /\ LET entry == [ n |-> Served + 1,
                      command |-> command, vehicle_id |-> vehicle_id,
                      status |-> 400, called |-> FALSE,
                      key |-> << >>, content |-> << >>,
                      before |-> published.n, after |-> published.n ]
       IN  IF Rejects(command, vehicle_id)
           THEN /\ ~crash
                /\ httpLog' = Recent(Append(httpLog, entry))
                /\ UNCHANGED << published, bkPc >>
           ELSE IF GetChannelThrows
                THEN /\ httpLog' = Recent(Append(httpLog,
                            [ entry EXCEPT !.status = 0, !.called = TRUE ]))
                     /\ bkPc' = IF crash THEN "crashed" ELSE bkPc
                     /\ UNCHANGED published
                ELSE /\ ~crash
                     /\ \E timestamp \in Timestamps :
                           published' =
                               Publish(RoutingKey(command, vehicle_id),
                                       Stringify(vehicle_id, timestamp))
                     /\ httpLog' = Recent(Append(httpLog,
                            [ entry EXCEPT !.status = 200, !.called = TRUE,
                                !.key = published'.routingKey,
                                !.content = published'.content,
                                !.after = published'.n ]))
                     /\ UNCHANGED bkPc
    /\ UNCHANGED << cvars, xvars, bkLog >>
    /\ UNCHANGED << bkConnection, bkChannel, memoryData, bkRegistered,
                    bkCloseListener, bkEscaped, bkConnOpen, bkChanOpen,
                    bkQueue, bkUnacked, bkAcked, bkDelivered, bkMalformed,
                    bkVehicle, sessionReady, pubLog >>

\* ------------------------------------------------------ the broker script

\* start_broker: a missing config file or a failing "compose up -d" ends the
\* script; otherwise wait_for_rabbitmq starts with attempt 1.
\* restart_broker: the same around "compose restart".
StartBroker(caller, configPresent, composeOk) ==
    /\ sbPc = "idle"
    /\ sbCaller' = caller
    /\ IF (caller = "start" /\ ~configPresent) \/ ~composeOk
       THEN /\ sbPc' = "done"
            /\ exitCode' = 1
            /\ UNCHANGED << attempt, containerRunning >>
       ELSE /\ sbPc' = "waiting"
            /\ attempt' = 1
            /\ containerRunning' = TRUE
            /\ UNCHANGED exitCode
    /\ UNCHANGED << cvars, bvars, crvars, mvars, waitStatus >>

\* wait_for_rabbitmq returns `status` to its caller: start_broker reports
\* and, on a failure, exits 1; in restart_broker the call is a plain
\* command under "set -e", which ends the script when it fails
Return(status) ==
    /\ waitStatus' = status
    /\ sbPc' = "done"
    /\ exitCode' = IF status = 0 THEN 0 ELSE 1

\* docker exec ... rabbitmq-diagnostics ping succeeds: return 0
PingSucceeds ==
    /\ sbPc = "waiting"
    /\ attempt <= max_attempts
    /\ containerRunning
    /\ Return(0)
    /\ UNCHANGED << cvars, bvars, crvars, mvars >>
    /\ UNCHANGED << sbCaller, attempt, containerRunning >>

\* The ping fails: sleep 5, ((attempt++)). After the last attempt the loop
\* is left and show_logs runs "compose logs -f tracking-rabbitmq", which
\* follows the log for as long as the container runs and ends at once when
\* it does not; "return 1" comes after it.
PingFails ==
    /\ sbPc = "waiting"
    /\ attempt <= max_attempts
    /\ attempt' = attempt + 1
    /\ IF attempt + 1 <= max_attempts
       THEN UNCHANGED << sbPc, waitStatus, exitCode >>
       ELSE IF containerRunning
            THEN /\ sbPc' = "logs"
                 /\ UNCHANGED << waitStatus, exitCode >>
            ELSE Return(1)
    /\ UNCHANGED << cvars, bvars, crvars, mvars >>
    /\ UNCHANGED << sbCaller, containerRunning >>

\* the container stops while the script waits or follows its log; a
\* followed log ends with it and wait_for_rabbitmq returns 1
ContainerStops ==
    /\ sbPc \in { "waiting", "logs" }
    /\ containerRunning
    /\ containerRunning' = FALSE
    /\ IF sbPc = "logs" THEN Return(1)
       ELSE UNCHANGED << sbPc, waitStatus, exitCode >>
    /\ UNCHANGED << cvars, bvars, crvars, mvars >>
    /\ UNCHANGED << sbCaller, attempt >>

\* ---------------------------------------------------------------- setup.sh

\* what show_menu prints next to each number
Shown ==
    [ n \in 1..17 |->
        CASE n = 1 -> "start_broker"
          [] n = 2 -> "start_broker_minimal"
          [] n = 3 -> "start_broker_production"
          [] n = 4 -> "stop_broker"
          [] n = 5 -> "restart_broker"
          [] n = 6 -> "show_status"
          [] n = 7 -> "show_logs"
          [] n = 8 -> "show_queues"
          [] n = 9 -> "show_connections"
          [] n = 10 -> "health_monitor"
          [] n = 11 -> "backup_configuration"
          [] n = 12 -> "restore_configuration"
          [] n = 13 -> "purge_queue"
          [] n = 14 -> "fix_configuration"
          [] n = 15 -> "check_broker_health"
          [] n = 16 -> "clean_all"
          [] n = 17 -> "exit" ]

\* case $choice in ... esac of main
Dispatch(c) ==
    CASE c = 1 -> "start_broker"
      [] c = 2 -> "start_broker_minimal"
      [] c = 3 -> "start_broker_production"
      [] c = 4 -> "stop_broker"
      [] c = 5 -> "restart_broker"
      [] c = 6 -> "show_status"
      [] c = 7 -> "show_logs"
      [] c = 8 -> "show_queues"
      [] c = 9 -> "show_connections"
      [] c = 10 -> "health_monitor"
      [] c = 11 -> "backup_configuration"
      [] c = 12 -> "restore_configuration"
      [] c = 13 -> "purge_queue"
      [] c = 14 -> "fix_configuration"
      [] c = 15 -> "run_examples"
      [] c = 16 -> "check_broker_health"
      [] c = 17 -> "clean_all"
      [] c = 18 -> "exit"
      [] OTHER -> "invalid"

\* what can be typed at "Select option": 19 stands for anything else
Choices == 1..19

\* text typed at the DELETE prompt, in pieces: the word, a blank, a
\* backslash, and some other character
Delete == << "DELETE" >>

LineAlphabet == { "DELETE", " ", Backslash, "x" }

Lines == UNION { [ 1..n -> LineAlphabet ] : n \in 0..MaxLine }

\* "read" without -r: a backslash is dropped and protects what follows it;
\* one that ends the line continues it with the next, empty here
RECURSIVE Marked(_)
Marked(line) ==
    IF line = << >> THEN << >>
    ELSE IF Head(line) = Backslash
         THEN IF Len(line) = 1 THEN << >>
              ELSE << [ c |-> line[2], esc |-> TRUE ] >>
                       \o Marked(Tail(Tail(line)))
         ELSE << [ c |-> Head(line), esc |-> FALSE ] >> \o Marked(Tail(line))

Blank(p) == p.c = " " /\ ~p.esc

\* "read" with the default IFS: blanks at both ends are dropped
RECURSIVE StripLeft(_)
StripLeft(ps) ==
    IF ps # << >> /\ Blank(Head(ps)) THEN StripLeft(Tail(ps)) ELSE ps

RECURSIVE StripRight(_)
StripRight(ps) ==
    IF ps # << >> /\ Blank(ps[Len(ps)])
    THEN StripRight(SubSeq(ps, 1, Len(ps) - 1))
    ELSE ps

\* read -p "..." confirmation
Read(line) ==
    LET ps == StripRight(StripLeft(Marked(line)))
    IN  [ i \in 1..Len(ps) |-> ps[i].c ]

\* a test that looks at the beginning of the answer
ConfirmedByPrefix(value) == value # << >> /\ Head(value) = "DELETE"

\* [ "$confirmation" != "DELETE" ] is false
Confirmed(value) == value = Delete

\* main: "clean" on the command line calls clean_all, no argument opens
\* the menu
StartSetup(arg) ==
    /\ menuPc = "idle"
    /\ IF arg = "clean"
       THEN menuPc' = "confirm" /\ ran' = "clean_all"
       ELSE menuPc' = "menu" /\ UNCHANGED ran
    /\ UNCHANGED << cvars, bvars, crvars, wvars >>
    /\ UNCHANGED << rounds, choice, confirmation, removed >>

\* read -p "Select option (1-18): " choice, and the case statement. Under
\* "set -e" an operation that fails ends the script.
ReadChoice(c, ok) ==
    /\ menuPc = "menu"
    /\ rounds < MaxRounds
    /\ rounds' = rounds + 1
    /\ choice' = c
    /\ ran' = Dispatch(c)
    /\ menuPc' = CASE Dispatch(c) = "clean_all" -> "confirm"
                   [] Dispatch(c) = "exit" -> "exited"
                   [] Dispatch(c) \in { "invalid", "check_broker_health" } -> "pause"
                   [] OTHER -> IF ok THEN "pause" ELSE "exited"
    /\ UNCHANGED << cvars, bvars, crvars, wvars >>
    /\ UNCHANGED << confirmation, removed >>

\* clean_all reads the confirmation: anything but DELETE returns 0,
\* DELETE runs "docker-compose down -v", "docker rm -f" and
\* "docker volume rm". From the menu the loop goes on, from the command
\* line the script exits.
ReadConfirmation(line) ==
    /\ menuPc = "confirm"
    /\ confirmation' = [ typed |-> line, value |-> Read(line) ]
    /\ removed' = Confirmed(Read(line))
    /\ menuPc' = IF choice = 0 THEN "exited" ELSE "pause"
    /\ UNCHANGED << cvars, bvars, crvars, wvars >>
    /\ UNCHANGED << rounds, choice, ran >>

\* read -p "Press Enter to continue..."
PressEnter ==
    /\ menuPc = "pause"
    /\ menuPc' = "menu"
    /\ UNCHANGED << cvars, bvars, crvars, wvars >>
    /\ UNCHANGED << rounds, choice, ran, confirmation, removed >>

\* ---------------------------------------------------------- specifications

\* connection management alone: no message is waiting
\* the backend process is not part of this run
BackendIdle ==
    /\ InitBackend
    /\ bkQueue = << >>
    /\ bkMalformed = [ m \in Msgs |-> FALSE ]
    /\ bkVehicle = [ m \in Msgs |-> "VH-1" ]

\* the consumer process is not part of this run
ConsumerIdle ==
    /\ DefaultSetup
    /\ InitConsumer
    /\ QueueEmpty
    /\ stored = [ m \in Msgs |-> NoHeader ]
    /\ malformed = [ m \in Msgs |-> FALSE ]

InitConn ==
    /\ BackendIdle
    /\ DefaultSetup
    /\ InitConsumer
    /\ QueueEmpty
    /\ stored = [ m \in Msgs |-> NoHeader ]
    /\ malformed = [ m \in Msgs |-> FALSE ]

NextConn ==
    \/ Connect
    \/ TimerFire
    \/ ConnectResolve
    \/ ConnectReject
    \/ \E c \in Conns : CreateChannelResolve(c)
    \/ \E c \in Conns : CreateChannelReject(c)
    \/ \E c \in Conns : PrefetchResolve(c)
    \/ \E c \in Conns : PrefetchReject(c)
    \/ \E c \in Conns, e \in BOOLEAN : Drop(c, e)
    \/ HandleConnectionError
    \/ HandleConnectionClose

SpecConn == InitConn /\ [][NextConn]_vars

\* the same, with the application calling startConsuming() when it likes
NextSubscribe ==
    \/ Connect
    \/ TimerFire
    \/ ConnectResolve
    \/ ConnectReject
    \/ \E c \in Conns : CreateChannelResolve(c)
    \/ \E c \in Conns : CreateChannelReject(c)
    \/ \E c \in Conns : PrefetchResolve(c)
    \/ \E c \in Conns : PrefetchReject(c)
    \/ \E c \in Conns, e \in BOOLEAN : Drop(c, e)
    \/ HandleConnectionError
    \/ HandleConnectionClose
    \/ CallStartConsuming

SpecSubscribe == InitConn /\ [][NextSubscribe]_vars

\* dispatching on a connection that stays up: any stored header, any payload
InitDispatch ==
    /\ BackendIdle
    /\ DefaultSetup
    /\ InitConsumer
    /\ QueueFilled
    /\ stored \in [ Msgs -> HeaderValues ]
    /\ malformed \in [ Msgs -> BOOLEAN ]

NextDispatch ==
    \/ Connect
    \/ ConnectResolve
    \/ \E c \in Conns : CreateChannelResolve(c)
    \/ \E c \in Conns : PrefetchResolve(c)
    \/ \E c \in Conns, q \in Queues, k \in 1..2 : Deliver(c, q, k)
    \/ \E c \in Conns, t \in Tags : ProcessorSucceeds(c, t)
    \/ \E c \in Conns, t \in Tags : ProcessorFails(c, t)

SpecDispatch == InitDispatch /\ [][NextDispatch]_vars

\* dispatching by a consumer whose config object carries a maxRetries
InitConfig ==
    /\ BackendIdle
    /\ variant = "retrying"
    /\ configMaxRetries \in { Unset, 1, 5 }
    /\ InitConsumer
    /\ QueueFilled
    /\ stored \in [ Msgs -> HeaderValues ]
    /\ malformed \in [ Msgs -> BOOLEAN ]

SpecConfig == InitConfig /\ [][NextDispatch]_vars

\* dispatching by the VehicleDataConsumer of the README
InitReadme ==
    /\ BackendIdle
    /\ variant = "deadLettering"
    /\ configMaxRetries = Unset
    /\ InitConsumer
    /\ QueueFilled
    /\ stored \in [ Msgs -> HeaderValues ]
    /\ malformed \in [ Msgs -> BOOLEAN ]

SpecReadme == InitReadme /\ [][NextDispatch]_vars

\* dispatching across drops and reconnects whose attempts succeed
InitReconnect ==
    /\ BackendIdle
    /\ DefaultSetup
    /\ InitConsumer
    /\ QueueFilled
    /\ stored = [ m \in Msgs |-> NoHeader ]
    /\ malformed = [ m \in Msgs |-> FALSE ]

NextReconnect ==
    \/ Connect
    \/ TimerFire
    \/ ConnectResolve
    \/ \E c \in Conns : CreateChannelResolve(c)
    \/ \E c \in Conns : PrefetchResolve(c)
    \/ \E c \in Conns : Drop(c, FALSE)
    \/ HandleConnectionClose
    \/ \E c \in Conns, q \in Queues, k \in 1..2 : Deliver(c, q, k)
    \/ \E c \in Conns, t \in Tags : ProcessorSucceeds(c, t)
    \/ \E c \in Conns, t \in Tags : ProcessorFails(c, t)

SpecReconnect == InitReconnect /\ [][NextReconnect]_vars

\* dispatching with the application calling close(); the connection is
\* not lost otherwise and every processor succeeds
NextClose ==
    \/ Connect
    \/ TimerFire
    \/ ConnectResolve
    \/ \E c \in Conns : CreateChannelResolve(c)
    \/ \E c \in Conns : PrefetchResolve(c)
    \/ CloseCall
    \/ \E i \in 1..MaxCloses : ChannelCloseResolve(i)
    \/ \E i \in 1..MaxCloses : ConnectionCloseResolve(i)
    \/ HandleConnectionClose
    \/ \E c \in Conns, q \in Queues, k \in 1..2 : Deliver(c, q, k)
    \/ \E c \in Conns, t \in Tags : ProcessorSucceeds(c, t)

SpecClose == InitReconnect /\ [][NextClose]_vars

\* the backend: startApp, deliveries, publishCommand, connection loss
InitBk ==
    /\ ConsumerIdle
    /\ InitBackend
    /\ bkQueue = [ i \in 1..NumMsgs |-> i ]
    /\ bkMalformed \in [ Msgs -> BOOLEAN ]
    /\ bkVehicle \in [ Msgs -> Vehicles ]

NextBackend ==
    \/ StartApp
    \/ BkConnectResolve
    \/ BkConnectReject
    \/ BkCreateChannelResolve
    \/ BkCreateChannelReject
    \/ BkConsumeResolve
    \/ BkConsumeReject
    \/ \E e \in BOOLEAN : BkDrop(e)
    \/ \E crash \in BOOLEAN : BkDeliver(crash)
    \/ \E c \in Commands, v \in BackendIds : PublishCommand(c, v)

SpecBackend == InitBk /\ [][NextBackend]_vars

\* the backend with well-formed messages, and every step that can be taken
\* eventually taken: timers, promises and broker answers do not stall
InitBkLive ==
    /\ ConsumerIdle
    /\ InitBackend
    /\ bkQueue = [ i \in 1..NumMsgs |-> i ]
    /\ bkMalformed = [ m \in Msgs |-> FALSE ]
    /\ bkVehicle \in [ Msgs -> Vehicles ]

SpecBackendLive == InitBkLive /\ [][NextBackend]_vars /\ WF_vars(NextBackend)

\* the backend serving control requests; no device message is waiting
InitControl ==
    /\ ConsumerIdle
    /\ BackendIdle

NextControl ==
    \/ StartApp
    \/ BkConnectResolve
    \/ BkCreateChannelResolve
    \/ BkConsumeResolve
    \/ BkDrop(FALSE)
    \/ \E c \in RequestCommands, v \in RequestIds, crash \in BOOLEAN :
          PostControl(c, v, crash)

SpecControl == InitControl /\ [][NextControl]_vars

\* connectRabbitMQ called up to MaxCalls times, the calls overlapping or not
NextSession ==
    \/ \E i \in CallIds : CallConnectRabbitMQ(i)
    \/ \E i \in CallIds : CrConnectResolve(i)
    \/ \E i \in CallIds : CrCreateChannelResolve(i)

SpecSession == InitControl /\ [][NextSession]_vars

\* the broker script started or restarted, its pings failing or not
NextWait ==
    \/ \E caller \in { "start", "restart" }, configPresent, composeOk \in BOOLEAN :
          StartBroker(caller, configPresent, composeOk)
    \/ PingSucceeds
    \/ PingFails
    \/ ContainerStops

SpecWait == InitControl /\ [][NextWait]_vars

\* setup.sh run with "clean" or through its menu
NextSetup ==
    \/ \E arg \in { "", "clean" } : StartSetup(arg)
    \/ \E c \in Choices, ok \in BOOLEAN : ReadChoice(c, ok)
    \/ \E line \in Lines : ReadConfirmation(line)
    \/ PressEnter

SpecSetup == InitControl /\ [][NextSetup]_vars

\* ------------------------------------------------------------------ claims

Requeues(m) ==
    Cardinality({ i \in DOMAIN history[m] : history[m][i].decision = "requeue" })

Failed(h) == h.proc \in { "failed", "parseError" }

\* C1: a poison message (its payload never parses, so every delivery fails)
\* is requeued at most 3 times, then dead-lettered, and a dead-lettered
\* message is never delivered to the consumer again.
C1_PoisonIsDeadLettered ==
    \A m \in Msgs :
        malformed[m] =>
            /\ Requeues(m) <= 3
            /\ \A i \in DOMAIN history[m] :
                   history[m][i].decision = "dead" => i = Len(history[m])

\* C2: the count observed at the delivery after a Requeue is one more than
\* the count observed at the failed delivery, the count never decreases
\* between deliveries of a message, and a failure at a count of 3 or more
\* is dead-lettered.
C2_CountIncreasesOnRequeue ==
    \A m \in Msgs :
        \A i \in DOMAIN history[m] :
            LET h == history[m][i]
            IN  /\ (h.decision = "requeue" /\ i < Len(history[m]))
                      => history[m][i + 1].count = h.count + 1
                /\ i < Len(history[m]) => history[m][i + 1].count >= h.count
                /\ (Failed(h) /\ h.count >= 3) => h.decision = "dead"

\* C3: when the listeners of one drop have run, reconnectAttempts is exactly
\* one more than when the drop began and exactly one more timer is pending.
C3_OneReconnectPerDrop ==
    [][ (events # << >> /\ events' = << >> /\ ~exited')
          => /\ reconnectAttempts' = dropSnapshot.attempts + 1
             /\ timers' = dropSnapshot.timers + 1 ]_vars

\* C4: at most one connection opened by the consumer is open at any time
\* (so a connection replaced in this.connection is closed by then).
C4_OneLiveConnection == Cardinality(connOpen) <= 1

\* C5: the consumer exits exactly when maxReconnectAttempts (5) consecutive
\* reconnect attempts have failed since the last Ready: never after fewer,
\* and with no attempt pending or scheduled once that many have failed.
C5_GivesUpAfterFive ==
    /\ exited => failedSinceReady >= 5
    /\ failedSinceReady >= 5 => exited

\* C6: the callbacks of one queue hold at most `prefetch` messages that were
\* received and are not yet acked or nacked, also across reconnects.
C6_HeldWithinBudget ==
    \A q \in Queues :
        Cardinality({ d \in callbacks : d.q = q }) <= prefetch

\* C7: every delivery is settled at most once: no delivery tag of a channel
\* receives two acks, or an ack and a nack.
C7_SettledAtMostOnce ==
    \A ch \in Conns, t \in Tags :
        settles[ch][t].ack + settles[ch][t].nack <= 1

\* C8: no exception leaves a consume callback, and a message whose handling
\* failed is nacked, not left unsettled, in every consume callback.
C8_FailureIsContained ==
    /\ ~bkEscaped
    /\ ~escaped
    /\ \A m \in bkUnacked : ~bkMalformed[m]

\* C9: a publishCommand call made while the backend session is not Ready
\* fails with an error and performs no channel.publish.
C9_PublishNeedsReady ==
    \A i \in DOMAIN pubLog :
        ~pubLog[i].ready =>
            /\ pubLog[i].result = "error"
            /\ pubLog[i].after = pubLog[i].before

\* publishCommand was called before connectRabbitMQ succeeded and again
\* after the 'close' event, and failed both times
C9_Witness ==
    /\ Len(pubLog) = 2
    /\ ~pubLog[1].ready /\ pubLog[1].result = "error"
    /\ ~pubLog[2].ready /\ pubLog[2].result = "error"
    /\ bkCloseListener /\ ~bkConnOpen /\ bkPc = "listening"
    /\ published.n = 0

\* C10: on a failure the decision depends on the delivery attempt count
\* alone: Requeue below 3, DeadLetter otherwise, an absent header being 0.
C10_DecisionByCount ==
    \A m \in Msgs :
        \A i \in DOMAIN history[m] :
            LET h == history[m][i]
                c == IF h.raw = NoHeader THEN 0 ELSE h.raw
            IN  Failed(h) =>
                    h.decision = (IF c < 3 THEN "requeue" ELSE "dead")

\* a failure without header was requeued, one at count 3 was dead-lettered,
\* and the nack of each reached the broker
C10_Witness ==
    /\ \E m \in Msgs : \E i \in DOMAIN history[m] :
          /\ Failed(history[m][i])
          /\ history[m][i].raw = NoHeader
          /\ history[m][i].decision = "requeue"
          /\ settles[history[m][i].ch][history[m][i].tag].nack = 1
    /\ \E m \in Msgs : \E i \in DOMAIN history[m] :
          /\ Failed(history[m][i])
          /\ history[m][i].raw = 3
          /\ history[m][i].decision = "dead"
          /\ m \in dlq

\* C11: a message published without retry count whose handler fails three
\* consecutive times is dead-lettered by the third failure and is in the
\* dead-letter sink, and the handler is invoked exactly three times for it.
C11_DeadAfterThreeFailures ==
    \A m \in Msgs :
        ( /\ RetryCount(stored[m]) = 0
          /\ Len(history[m]) >= 3
          /\ \A i \in 1..3 : Failed(history[m][i]) )
        => /\ history[m][3].decision = "dead"
           /\ m \in dlq
           /\ Len(history[m]) = 3

\* C12: the step in which connect() succeeds (its listeners are registered)
\* ends with isConnected = true and reconnectAttempts = 0, so the counter
\* holds only what was counted since the last Ready.
C12_ReadyResetsAttempts ==
    [][ listeners' # listeners
          => /\ isConnected'
             /\ reconnectAttempts' = 0 ]_vars

\* a reconnect attempt has just succeeded: a second connection is Ready, which
\* takes at least one counted failure or drop before it
C12_Witness ==
    /\ opened >= 2
    /\ connection = opened
    /\ listeners[connection] >= 1
    /\ connection \in connOpen
    /\ isConnected
    /\ reconnectAttempts = 0
    /\ timers = 0

\* C13: a step in which the handshake of a connect() call fails (amqp.connect
\* rejects: one pending call less and no connection opened) leaves the state
\* Disconnected and schedules no retry by itself: no timer is added, the
\* attempt counter is not touched and the process is not ended; the failure
\* goes to the caller.
C13_ConnectFailureIsRaised ==
    [][ (connecting' < connecting /\ opened' = opened)
          => /\ isConnected' = isConnected
             /\ timers' = timers
             /\ reconnectAttempts' = reconnectAttempts
             /\ exited' = exited ]_vars

\* C14: a startConsuming() call made while the consumer is not connected
\* (isConnected is false: before the first Ready, or after a drop) throws
\* and registers no consumer on any queue.
C14_StartNeedsConnected ==
    (startCalls >= 1 /\ ~startLog.connected)
        => /\ startLog.threw
           /\ startLog.added = 0

\* startConsuming() was called after a drop, with the channel object of the
\* lost connection still in this.channel, and threw
C14_Witness ==
    /\ startCalls >= 1
    /\ ~startLog.connected
    /\ startLog.chan # NoConn
    /\ startLog.chan \notin chanOpen
    /\ listeners[startLog.chan] >= 1
    /\ startLog.threw
    /\ startLog.added = 0

\* C15: subscribing twice on one Ready session leaves one consumer per queue:
\* no channel ever carries two consumers of the same queue.
C15_OneConsumerPerQueue ==
    \A ch \in Conns, q \in Queues : consumers[ch][q] <= 1

\* C16: a close() call made on a consumer that is already closed, or while
\* an earlier close() is still in progress, raises no error.
C16_CloseIsIdempotent ==
    \A i \in DOMAIN closeLog :
        closeLog[i].found \in { "closed", "closing" } => ~closeLog[i].raised

\* C17: for a message whose processor was running when close() was called,
\* the consumer sends neither ack nor nack once the processor ends.
C17_NoSettleAfterClose ==
    \A m \in Msgs :
        \A i \in DOMAIN history[m] :
            history[m][i].closed => ~history[m][i].sent

\* C18: in the backend, once the 'close' listener has run for a connection
\* that was lost while the server was up, a new connection attempt
\* (amqp.connect) eventually follows without any caller asking for it.
C18_BackendReconnects ==
    (bkCloseListener /\ ~bkConnOpen /\ bkPc = "listening") ~> (bkPc = "connect")

\* C19: the messaging layer never ends the process on a single failed
\* connection attempt: the backend does not exit through startApp's catch.
C19_NoExitOnOneFailure == bkPc # "exited"

RECURSIVE Pow2(_)
Pow2(n) == IF n = 0 THEN 1 ELSE 2 * Pow2(n - 1)

\* C20: the delay of the n-th consecutive reconnect attempt is the initial
\* delay times 2^(n-1): each failed attempt doubles the delay of the next.
C20_DelayDoubles ==
    scheduled.attempt >= 1
        => scheduled.delay = reconnectDelay * Pow2(scheduled.attempt - 1)

Dots(key) == Cardinality({ i \in DOMAIN key : key[i] = Dot })

\* C21: the routing key is control.<command>.<vehicle_id>; two requests that
\* were published have the same key exactly when they have the same command
\* and the same vehicle_id.
C21_KeyIsInjective ==
    \A i, j \in DOMAIN httpLog :
        (httpLog[i].status = 200 /\ httpLog[j].status = 200)
            => /\ httpLog[i].key =
                    Control \o << Dot >> \o httpLog[i].command
                            \o << Dot >> \o httpLog[i].vehicle_id
               /\ (httpLog[i].key = httpLog[j].key)
                    <=> /\ httpLog[i].command = httpLog[j].command
                        /\ httpLog[i].vehicle_id = httpLog[j].vehicle_id

\* two published requests with different commands whose vehicle ids differ
\* only around the separator
C21_Witness ==
    /\ Len(httpLog) = 2
    /\ httpLog[1].status = 200 /\ httpLog[2].status = 200
    /\ httpLog[1].command # httpLog[2].command
    /\ httpLog[1].vehicle_id = << "V", Dot >>
    /\ httpLog[2].vehicle_id = << Dot, "V" >>
    /\ httpLog[1].key # httpLog[2].key
    /\ published.n = 2

\* C22: a request whose vehicle_id is empty or contains '.' publishes
\* nothing, and every published key has exactly three dot-separated tokens.
C22_SeparatorIsRejected ==
    /\ \A i \in DOMAIN httpLog :
          ( \/ httpLog[i].vehicle_id = << >>
            \/ \E k \in DOMAIN httpLog[i].vehicle_id :
                  httpLog[i].vehicle_id[k] = Dot )
          => httpLog[i].after = httpLog[i].before
    /\ published.n > 0 => Dots(published.routingKey) = 2

\* C23: a request without vehicle_id, or with a command that is not one of
\* the three, is answered 400 and publishCommand is not called for it.
C23_ValidatedBeforePublish ==
    \A i \in DOMAIN httpLog :
        (httpLog[i].vehicle_id = Missing \/ httpLog[i].command \notin Commands)
            => /\ httpLog[i].status = 400
               /\ ~httpLog[i].called
               /\ httpLog[i].after = httpLog[i].before

\* one request with an unknown command and a good vehicle_id, one with a
\* known command and no vehicle_id, both refused while the channel is up
C23_Witness ==
    /\ Len(httpLog) = 2
    /\ httpLog[1].command \notin Commands
    /\ httpLog[1].vehicle_id = << "V", "V" >>
    /\ httpLog[1].status = 400
    /\ httpLog[2].command = KillVehicle
    /\ httpLog[2].vehicle_id = Missing
    /\ httpLog[2].status = 400
    /\ bkChannel # NoConn
    /\ published.n = 0

\* C24: the retry ceiling is 3 unless the configuration gives another one:
\* a failed delivery is requeued while its count is below the configured
\* ceiling and dead-lettered from there on.
C24_CeilingIsConfigurable ==
    LET ceiling == IF configMaxRetries = Unset THEN 3 ELSE configMaxRetries
    IN  \A m \in Msgs :
            \A i \in DOMAIN history[m] :
                Failed(history[m][i]) =>
                    history[m][i].decision =
                        (IF history[m][i].count < ceiling THEN "requeue"
                         ELSE "dead")

C26_FifoPerLoop ==
    \A m1, m2 \in Msgs :
        \A i \in DOMAIN history[m1], j \in DOMAIN history[m2] :
            ( /\ history[m1][i].ch = history[m2][j].ch
              /\ history[m1][i].tag < history[m2][j].tag
              /\ m2 < m1 )
            => \E k \in 1..(j - 1) :
                  /\ Failed(history[m2][k])
                  /\ history[m2][k].decision = "requeue"

\* both messages were handed over in queue order while the first was still
\* being processed; the first then failed, was requeued and was seen again
\* after the second
C26_Witness ==
    /\ Len(history[1]) >= 2
    /\ Len(history[2]) >= 1
    /\ history[1][1].tag < history[2][1].tag
    /\ history[2][1].tag < history[1][2].tag
    /\ history[1][1].ch = history[2][1].ch
    /\ history[1][1].proc = "failed"
    /\ history[2][1].proc = "ok"
    /\ 2 \in acked

\* C27: a command that was published and is then decoded yields the payload
\* that was published: the same vehicle_id and the timestamp that was put
\* in, under the routing key control.<command>.<decoded vehicle_id>.
C27_RoundTrip ==
    \A i \in DOMAIN httpLog :
        httpLog[i].status = 200 =>
            LET data == JsonParse(httpLog[i].content)
            IN  /\ data.ok
                /\ Len(data.members) = 2
                /\ Property(data, VehicleIdKey) = httpLog[i].vehicle_id
                /\ Property(data, TimestampKey) \in Timestamps
                /\ httpLog[i].key =
                       Control \o << Dot >> \o httpLog[i].command \o << Dot >>
                               \o Property(data, VehicleIdKey)

\* a published command whose vehicle_id holds a quote and a backslash
C27_Witness ==
    \E i \in DOMAIN httpLog :
        /\ httpLog[i].status = 200
        /\ httpLog[i].vehicle_id = << Quote, Backslash >>
        /\ published.n = httpLog[i].n
        /\ JsonParse(published.content).ok
        /\ published.content = httpLog[i].content

\* C28: every ack or nack the consumer sends goes out on the channel that
\* delivered the message, never on a channel created by a later reconnect.
C28_SettledOnDeliveringChannel ==
    \A m \in Msgs :
        \A i \in DOMAIN history[m] :
            history[m][i].sent => history[m][i].on = history[m][i].ch

\* close() has completed and nothing of an earlier connect() is pending
ShutDown ==
    /\ closeLog # << >>
    /\ closeLog[Len(closeLog)].done
    /\ closers = {}
    /\ connection = NoConn
    /\ channel = NoConn
    /\ connecting = 0
    /\ creating = {}
    /\ prefetching = {}
    /\ timers = 0

\* C29: once close() has completed the consumer stays shut down: unless the
\* caller calls connect() again, no step raises reconnectAttempts, arms a
\* reconnect timer, starts a connect or opens a connection.
C29_StaysShutDown ==
    [][ (ShutDown /\ started' = started)
            => /\ reconnectAttempts' = reconnectAttempts
               /\ timers' = 0
               /\ connecting' = 0
               /\ opened' = opened ]_vars

\* a connection was lost, a later connect() succeeded and nothing is pending
Reconnected ==
    /\ opened >= 2
    /\ isConnected
    /\ ~exited
    /\ events = << >>
    /\ timers = 0
    /\ connecting = 0
    /\ creating = {}
    /\ prefetching = {}
    /\ channel \in chanOpen

\* C30: once a reconnect attempt after a connection drop has succeeded, the
\* consumer is connected and consumes every one of its queues with exactly
\* one consumer per queue on the new channel.
C30_ConsumingAgain ==
    Reconnected => \A q \in Queues : consumers[channel][q] = 1

\* C31: a nack sent for one failed message settles that message alone:
\* every other message that is in flight on a channel that stays open is
\* still unsettled after that step.
C31_NackSettlesOneMessage ==
    [][ \A m \in Msgs :
          \A i \in DOMAIN history'[m] :
              ( /\ Failed(history'[m][i])
                /\ history'[m][i].sent
                /\ (i \notin DOMAIN history[m] \/ history[m][i] # history'[m][i]) )
              => \A u \in unacked :
                    (u.msg # m /\ u.ch \in chanOpen') => u \in unacked' ]_vars

\* C32: whenever isConnected is true and no connection event waits to be
\* handled, connection and channel are set, the channel is the one created
\* on the current connection, and that connection is open.
C32_ConnectedMeansUsable ==
    (isConnected /\ events = << >>)
        => /\ connection # NoConn
           /\ channel # NoConn
           /\ channel = connection
           /\ connection \in connOpen

\* C33: a connectRabbitMQ call that finds a pair held returns it without
\* connecting, and however the calls overlap amqp.connect opens a single
\* connection.
C33_OneConnection ==
    /\ \A i \in CallIds :
          crCalls[i].held =>
              /\ crCalls[i].pc = "returned"
              /\ ~crCalls[i].connected
    /\ crOpened <= 1

\* the message stored last for vehicle v, 0 when none was
LastFor(v) ==
    LET hits == { i \in DOMAIN bkLog : bkVehicle[bkLog[i]] = v }
    IN  IF hits = {} THEN 0
        ELSE bkLog[CHOOSE i \in hits : \A j \in hits : j <= i]

\* C34: memoryData[type][vehicle_id] holds the payload of the message of
\* that type delivered last for that vehicle, the entries of other types
\* and vehicles are as they were, and every stored message has been acked.
C34_LatestIsStored ==
    /\ \A v \in Vehicles : memoryData["location"][v] = LastFor(v)
    /\ \A t \in Types \ { "location" } : \A v \in Vehicles :
          memoryData[t][v] = 0
    /\ \A i \in DOMAIN bkLog : bkLog[i] \in bkAcked

\* two messages of one vehicle were delivered and the second one is stored
C34_Witness ==
    /\ Len(bkLog) = 2
    /\ bkVehicle[bkLog[1]] = "VH-1"
    /\ bkVehicle[bkLog[2]] = "VH-1"
    /\ memoryData["location"]["VH-1"] = bkLog[2]
    /\ memoryData["location"]["VH-2"] = 0
    /\ bkLog[2] \in bkAcked

\* C35: the HTTP server listens only after connectRabbitMQ has returned and
\* all five consumers are registered; a process that exited with code 1
\* did so out of a startup step, before the server could listen.
C35_ListensAfterStartup ==
    /\ bkPc = "listening"
          => bkRegistered = Len(BkQueues) /\ bkCloseListener
    /\ bkPc = "exited"
          => bkRegistered < Len(BkQueues)

\* the server listens on an open connection with its five consumers
C35_Witness ==
    /\ bkPc = "listening"
    /\ bkRegistered = 5
    /\ bkConnOpen
    /\ bkChanOpen
    /\ sessionReady

\* C36: wait_for_rabbitmq returns 0 only after a ping that succeeded, and
\* when the attempts are used up it has returned 1 and the script has
\* reported the failure and exited.
C36_WaitTerminates ==
    /\ waitStatus = 0 => attempt <= max_attempts
    /\ attempt > max_attempts => (waitStatus = 1 /\ exitCode = 1)

\* C37: the operation run for a choice is the one show_menu lists under
\* that number, for every number the menu shows.
C37_MenuMatchesDispatch ==
    (choice \in DOMAIN Shown) => ran = Shown[choice]

\* C38 as stated: clean_all runs the removal commands only when the line
\* typed is exactly DELETE.
C38_OnlyExactDelete ==
    removed => confirmation.typed = Delete

\* what is left of a line without its blanks and backslashes
RECURSIVE Visible(_)
Visible(line) ==
    IF line = << >> THEN << >>
    ELSE (IF Head(line) \in { " ", Backslash } THEN << >>
          ELSE << Head(line) >>) \o Visible(Tail(line))

\* C38: clean_all runs the removal commands only when the line typed reads
\* DELETE once blanks around it and backslashes in it are taken away; on a
\* line with anything else in it it returns without removing.
C38_OnlyDelete ==
    removed => Visible(confirmation.typed) = Delete

\* DELETE typed after a blank was accepted from the menu
C38_Witness ==
    /\ removed
    /\ confirmation.typed = << " ", "DELETE" >>
    /\ choice = 17
    /\ menuPc = "pause"

====
